---- MODULE Spec2Model ----
(***************************************************************************)
(* Model of src/objects/object.rs: the PyObject handle, which owns one     *)
(* reference to a foreign (CPython) object, its constructors, Clone, Drop, *)
(* steal_ptr, the casting protocol and identity equality.                  *)
(*                                                                         *)
(* The foreign heap is a small set of addresses, each with an ob_refcnt    *)
(* and an ob_type.  `ext` counts the references to an object that are      *)
(* owned by code outside this layer (the caller), so that the ownership    *)
(* transfers of from_owned_ptr and steal_ptr can be followed.  `last` is   *)
(* a log of the operation that produced the current state, with the        *)
(* refcounts and handle counts that held before it.  `acc` is the trace of  *)
(* the accesses the last step made to the foreign heap (refcount reads,    *)
(* increments, decrements, type reads), each with the state of the object  *)
(* at that moment.  `view` is the non-owning view of the caller's pointers *)
(* that borrow_from_owned_ptr or borrow_from_owned_ptr_slice returned, for *)
(* as long as it is alive.  Formatting (fmt::String, fmt::Show) and the    *)
(* constructors that accept NULL are operators over the same heap.         *)
(***************************************************************************)
EXTENDS Integers, FiniteSets, Sequences, TLC

\* ---------------------------------------------------------------- bounds
NumObjs == 2          \* addresses of the foreign heap: 1..NumObjs
NumHandles == 2       \* storage locations that can hold a PyObject value
MaxRef == 2           \* cap on ob_refcnt (guards of the incrementing steps)

NULL == 0             \* the null pointer (ptr.is_null())

Ptrs == 1..NumObjs
Slots == 1..NumHandles
Kinds == {"int", "str"}
\* The objects of the model's heap: the first two addresses hold ints, every
\* further one a str.
KindAt(p) == IF p <= 2 THEN "int" ELSE "str"
Variants == {"PyObject", "PyInt", "PyString"}
Sessions == {"py"}    \* Python<'p> is a zero-sized marker: one value

VARIABLES
  mem,        \* mem[p]: "free" | "live" | "corrupt"
  ob_refcnt,  \* ob_refcnt[p]: the foreign refcount field
  ob_type,    \* ob_type[p]: the dynamic kind of the object
  ext,        \* ext[p]: references held outside the layer
  slot,       \* slot[h]: [st, ty, v]: st "live" | "vacant", ty the static
              \* type of the handle, v the PyObject struct {ptr, py}
  last,       \* the last operation, its arguments, pre-state and result
  acc,        \* the accesses to foreign objects the last operation made
  view        \* the non-owning view that exists: [kind, v]: kind "none" |
              \* "ref" | "slice", v the PyObject structs seen through it

vars == <<mem, ob_refcnt, ob_type, ext, slot, last, acc, view>>

\* ------------------------------------------------ the foreign runtime (ffi)
\* The heap as seen by the ffi primitives: the refcounts and, for each
\* address, whether an object lives there.  A decrement of an object that
\* is not live (a second release) corrupts the heap.  ev lists the accesses
\* made during the current operation: which primitive, on which address,
\* and whether an object lived there at that moment.
Heap == [rc |-> ob_refcnt, mem |-> mem, ev |-> <<>>]

Touch(hp, what, p) ==
  [hp EXCEPT !.ev = Append(@, [what |-> what, p |-> p, mem |-> hp.mem[p]])]

Py_REFCNT(hp, p) == hp.rc[p]

Py_INCREF(hp, p) == [Touch(hp, "Py_INCREF", p) EXCEPT !.rc[p] = @ + 1]

\* Py_DECREF: one decrement; the object is released when it reaches zero.
Py_DECREF(hp, p) ==
  LET t == Touch(hp, "Py_DECREF", p) IN
  IF hp.mem[p] # "live" THEN [t EXCEPT !.rc[p] = 0, !.mem[p] = "corrupt"]
  ELSE IF hp.rc[p] - 1 <= 0 THEN [t EXCEPT !.rc[p] = 0, !.mem[p] = "free"]
  ELSE [t EXCEPT !.rc[p] = @ - 1]

\* Py_XDECREF: Py_DECREF that tolerates NULL.
Py_XDECREF(hp, p) == IF p = NULL THEN hp ELSE Py_DECREF(hp, p)

\* ------------------------------------------------------- struct PyObject
PyObject(ptr, py) == [ptr |-> ptr, py |-> py]

\* A location that holds no value (never filled, moved from, or dropped):
\* its bytes are zero, since the struct carries no drop flag
\* (#[unsafe_no_drop_flag]).
Zeroed == [ptr |-> NULL, py |-> "py"]

Vacant == [st |-> "vacant", ty |-> "PyObject", v |-> Zeroed]

LiveOn(s, p) == {h \in Slots : s[h].st = "live" /\ s[h].v.ptr = p}
NLive(s) == [p \in Ptrs |-> Cardinality(LiveOn(s, p))]

\* ------------------------------------------------------ Drop and Clone
drop_then_read(hp, self) ==
  IF self.ptr = NULL THEN hp
  ELSE Touch(Py_DECREF(hp, self.ptr), "Py_REFCNT", self.ptr)

drop_no_null_check(hp, self) ==
  IF self.ptr = NULL
  THEN [hp EXCEPT !.ev = Append(@, [what |-> "Py_DECREF", p |-> NULL, mem |-> "null"])]
  ELSE Py_DECREF(hp, self.ptr)

drop_twice(hp, self) == Py_XDECREF(Py_XDECREF(hp, self.ptr), self.ptr)

\* impl Drop for PyObject: Py_XDECREF(*self.ptr)
drop(hp, self) == Py_XDECREF(hp, self.ptr)

clone_no_incref(hp, self) == [hp |-> hp, ret |-> PyObject(self.ptr, self.py)]

\* impl Clone for PyObject: Py_INCREF, then a struct with the same fields
clone(hp, self) ==
  [hp |-> Py_INCREF(hp, self.ptr), ret |-> PyObject(self.ptr, self.py)]

\* ----------------------------------------------------------- constructors
from_owned_ptr_incref(hp, py, ptr) == [hp |-> Py_INCREF(hp, ptr), ret |-> PyObject(ptr, py)]

\* PyObject::from_owned_ptr: no refcount traffic
from_owned_ptr(hp, py, ptr) == [hp |-> hp, ret |-> PyObject(ptr, py)]

from_borrowed_ptr_no_incref(hp, py, ptr) == [hp |-> hp, ret |-> PyObject(ptr, py)]

\* PyObject::from_borrowed_ptr: Py_INCREF(ptr), then the struct
from_borrowed_ptr(hp, py, ptr) ==
  [hp |-> Py_INCREF(hp, ptr), ret |-> PyObject(ptr, py)]

\* debug_assert!(!ptr.is_null() && ffi::Py_REFCNT(ptr) > 0): the first
\* statement of a constructor in a debug build.  The refcount is read only
\* of a non-null pointer; seen is the value that read returns.
debug_assert_valid(hp, ptr, seen) ==
  IF ptr = NULL THEN [hp |-> hp, ok |-> FALSE]
  ELSE [hp |-> Touch(hp, "Py_REFCNT", ptr), ok |-> seen > 0]

\* What a read of the refcount field can return: the refcount of a live
\* object, anything where no object lives.
RefcntSeen(p) == IF mem[p] = "live" THEN {ob_refcnt[p]} ELSE 0..MaxRef

\* The outcome of a constructor: a value, or the panic of a failed assertion.
Built(r) == [hp |-> r.hp, panic |-> FALSE, ret |-> r.ret]
Panicked(hp) == [hp |-> hp, panic |-> TRUE, ret |-> Zeroed]

\* from_owned_ptr and from_borrowed_ptr as built: with the assertion in a
\* debug build, without it in a release build.
from_owned_ptr_in(debug, hp, py, ptr, seen) ==
  IF ~debug THEN Built(from_owned_ptr(hp, py, ptr))
  ELSE LET a == debug_assert_valid(hp, ptr, seen) IN
       IF a.ok THEN Built(from_owned_ptr(a.hp, py, ptr)) ELSE Panicked(a.hp)

from_borrowed_ptr_late_assert(debug, hp, py, ptr, seen) ==
  IF ~debug THEN Built(from_borrowed_ptr(hp, py, ptr))
  ELSE IF ptr = NULL THEN Panicked(hp)
  ELSE LET r == from_borrowed_ptr(hp, py, ptr)
           a == debug_assert_valid(r.hp, ptr, seen) IN
       IF a.ok THEN [hp |-> a.hp, panic |-> FALSE, ret |-> r.ret] ELSE Panicked(a.hp)

from_borrowed_ptr_in(debug, hp, py, ptr, seen) ==
  IF ~debug THEN Built(from_borrowed_ptr(hp, py, ptr))
  ELSE LET a == debug_assert_valid(hp, ptr, seen) IN
       IF a.ok THEN Built(from_borrowed_ptr(a.hp, py, ptr)) ELSE Panicked(a.hp)

\* Option<PyObject>: None, or Some of what the constructor built.
None(hp) == [hp |-> hp, panic |-> FALSE, some |-> FALSE, ret |-> Zeroed]
Some(r) == [hp |-> r.hp, panic |-> r.panic, some |-> ~r.panic, ret |-> r.ret]

\* PyObject::from_borrowed_ptr_opt: None for NULL, else from_borrowed_ptr
from_borrowed_ptr_opt(debug, hp, py, ptr, seen) ==
  IF ptr = NULL THEN None(hp)
  ELSE Some(from_borrowed_ptr_in(debug, hp, py, ptr, seen))

from_owned_ptr_opt_as_borrowed(debug, hp, py, ptr, seen) ==
  from_borrowed_ptr_opt(debug, hp, py, ptr, seen)

\* PyObject::from_owned_ptr_opt: None for NULL, else from_owned_ptr
from_owned_ptr_opt(debug, hp, py, ptr, seen) ==
  IF ptr = NULL THEN None(hp)
  ELSE Some(from_owned_ptr_in(debug, hp, py, ptr, seen))

\* ------------------------------------------------------------------ views
borrow_from_owned_ptr_incref(hp, py, ptr) ==
  [hp |-> Py_INCREF(hp, ptr), ret |-> PyObject(ptr, py)]

\* PyObject::borrow_from_owned_ptr: the caller's pointer location seen as a
\* PyObject (transmute); nothing is called.
borrow_from_owned_ptr(hp, py, ptr) == [hp |-> hp, ret |-> PyObject(ptr, py)]

borrow_from_owned_ptr_in(debug, hp, py, ptr, seen) ==
  IF ~debug THEN Built(borrow_from_owned_ptr(hp, py, ptr))
  ELSE LET a == debug_assert_valid(hp, ptr, seen) IN
       IF a.ok THEN Built(borrow_from_owned_ptr(a.hp, py, ptr)) ELSE Panicked(a.hp)

\* PyObject::borrow_from_owned_ptr_slice: the caller's pointers seen as
\* PyObjects (transmute); the body is the same in both builds.
borrow_from_owned_ptr_slice(hp, py, ptr) ==
  [hp |-> hp, ret |-> [i \in DOMAIN ptr |-> PyObject(ptr[i], py)]]

borrow_from_owned_ptr_slice_in(debug, hp, py, ptr) ==
  Built(borrow_from_owned_ptr_slice(hp, py, ptr))

\* ------------------------------------------------------- ToPythonPointer
as_ptr(self) == self.ptr

steal_ptr_and_decref(hp, self) == [hp |-> Py_XDECREF(hp, self.ptr), ret |-> self.ptr]

\* steal_ptr: reads the pointer and forgets the value: no destructor runs
steal_ptr(hp, self) == [hp |-> hp, ret |-> self.ptr]

\* ---------------------------------------------------------- introspection
get_refcnt_less_own(hp, self) == Py_REFCNT(hp, as_ptr(self)) - 1

\* PyObject::get_refcnt: Py_REFCNT(self.as_ptr())
get_refcnt(hp, self) == Py_REFCNT(hp, as_ptr(self))
get_refcnt_reads(hp, self) == Touch(hp, "Py_REFCNT", as_ptr(self))

\* PyObject::get_type: the ob_type field read through the pointer
get_type(self) == ob_type[as_ptr(self)]
get_type_reads(hp, self) == Touch(hp, "ob_type", as_ptr(self))

\* PythonObject::python: the session of the handle
python(self) == self.py

\* The value an object holds.  Every kind has one value in the model (a
\* fresh int is 0, a fresh str is empty): objects of one kind hold equal
\* values, objects of different kinds do not.
ob_val(p) == IF ob_type[p] = "int" THEN "0" ELSE "''"

\* --------------------------------------------------------------- equality
eq_by_value(self, o) == ob_val(self.ptr) = ob_val(o.ptr)

\* impl PartialEq for PyObject: self.ptr == o.ptr
eq(self, o) == self.ptr = o.ptr

\* ------------------------------------------------- the casting protocol
\* What dynamic kind a variant requires; PyObject accepts every kind.
ExpectedKind(T) == IF T = "PyInt" THEN "int" ELSE "str"
Satisfies(k, T) == T = "PyObject" \/ k = ExpectedKind(T)

\* The outcome of a cast: ok or a PythonObjectDowncastError, and on ok the
\* handle (by value) or the reference to it (by reference), with the static
\* type it now has.
Ok(hp, T, v) == [hp |-> hp, ok |-> TRUE, ty |-> T, v |-> v]
Err(hp, py) == [hp |-> hp, ok |-> FALSE, ty |-> "PythonObjectDowncastError",
                v |-> [ptr |-> NULL, py |-> py]]

\* impl PythonObject for PyObject: all four are the identity
as_object(self) == self
into_object_clone(hp, self) == [hp |-> Py_INCREF(hp, self.ptr), ret |-> PyObject(self.ptr, self.py)]
into_object(hp, self) == [hp |-> hp, ret |-> self]
unchecked_downcast_from(hp, o) == Ok(hp, "PyObject", o)
unchecked_downcast_borrow_from(hp, o) == Ok(hp, "PyObject", o)

\* impl PythonObjectWithCheckedDowncast for PyObject: always Ok
downcast_from_err(hp, obj) == Err(drop(hp, obj), obj.py)
downcast_from(hp, obj) == Ok(hp, "PyObject", obj)
downcast_borrow_from(hp, obj) == Ok(hp, "PyObject", obj)

\* The same four for a specific variant T, which wraps a PyObject.  The
\* checked forms test the object's kind; the by-value form owns obj, so on
\* a mismatch, where the error carries only the session, obj goes out of
\* scope and its destructor runs.
variant_as_object(self) == self
variant_into_object(hp, self) == [hp |-> hp, ret |-> self]
variant_unchecked_downcast_from(T, hp, o) == Ok(hp, T, o)
variant_unchecked_downcast_borrow_from(T, hp, o) == Ok(hp, T, o)
variant_downcast_from(T, hp, obj) ==
  IF Satisfies(get_type(obj), T)
  THEN Ok(hp, T, obj)
  ELSE Err(drop(hp, obj), obj.py)
variant_downcast_borrow_from(T, hp, obj) ==
  IF Satisfies(get_type(obj), T)
  THEN Ok(hp, T, obj)
  ELSE Err(hp, obj.py)

\* PyObject::unchecked_cast_into / cast_into / unchecked_cast_as / cast_as:
\* each hands self to the target type's implementation.
unchecked_cast_into(T, hp, self) ==
  IF T = "PyObject" THEN unchecked_downcast_from(hp, self)
  ELSE variant_unchecked_downcast_from(T, hp, self)

cast_into_unchecked(T, hp, self) == unchecked_cast_into(T, hp, self)

cast_into(T, hp, self) ==
  IF T = "PyObject" THEN downcast_from(hp, self)
  ELSE variant_downcast_from(T, hp, self)

unchecked_cast_as(T, hp, self) ==
  IF T = "PyObject" THEN unchecked_downcast_borrow_from(hp, self)
  ELSE variant_unchecked_downcast_borrow_from(T, hp, self)

cast_as(T, hp, self) ==
  IF T = "PyObject" THEN downcast_borrow_from(hp, self)
  ELSE variant_downcast_borrow_from(T, hp, self)

\* ------------------------------------------------------------ formatting
\* What str() and repr() of an object are when the protocol call succeeds.
py_str(p) == IF ob_type[p] = "int" THEN "0" ELSE ""
py_repr(p) == ob_val(p)

\* The outcome of a protocol call or of an extraction: a value or an error.
Failed == [ok |-> FALSE, v |-> ""]
Returned(v) == [ok |-> TRUE, v |-> v]

\* Formatter::write_str: appends to what was written, unless the sink fails.
write_str(f, text, sink_ok) ==
  IF sink_ok THEN [ret |-> "Ok", f |-> Append(f, text)]
             ELSE [ret |-> "Err", f |-> f]

\* What fmt returns: ret "Ok" | "Err" (fmt::Error), or "panic"; f is the
\* formatter after the call, and tmp what became of the reference to the
\* object the protocol call returned: repr_obj owns it, and is dropped on
\* every path out of fmt ("released"); "none" if the call returned none.
Formatted(w, tmp) == [ret |-> w.ret, f |-> w.f, tmp |-> tmp]

String_fmt_unwrap(self, called, extracted, f, sink_ok) ==
  IF ~called.ok THEN Formatted([ret |-> "panic", f |-> f], "none")
  ELSE IF ~extracted.ok THEN Formatted([ret |-> "panic", f |-> f], "released")
  ELSE Formatted(write_str(f, extracted.v, sink_ok), "released")

\* impl fmt::String for PyObject: called is what self.str() returned,
\* extracted what repr_obj.extract::<&str>() returned; each error is mapped
\* to fmt::Error and returned (try!) before anything is written.
String_fmt(self, called, extracted, f, sink_ok) ==
  IF ~called.ok THEN Formatted([ret |-> "Err", f |-> f], "none")
  ELSE IF ~extracted.ok THEN Formatted([ret |-> "Err", f |-> f], "released")
  ELSE Formatted(write_str(f, extracted.v, sink_ok), "released")

\* impl fmt::Show for PyObject: the same, with self.repr().
Show_fmt(self, called, extracted, f, sink_ok) ==
  IF ~called.ok THEN Formatted([ret |-> "Err", f |-> f], "none")
  ELSE IF ~extracted.ok THEN Formatted([ret |-> "Err", f |-> f], "released")
  ELSE Formatted(write_str(f, extracted.v, sink_ok), "released")

\* ------------------------------------------------------------- the log
\* What is recorded of a step: the operation, the location h it acted on,
\* the location h2 of a second argument or of the new handle, the object p,
\* the target type t of a cast, the result, and from the state before the
\* step the refcounts (pre), the live handles per object (live), the
\* object's kind and the content of h (src).  chain tells which operation
\* came directly before on the same location (the operation that filled it,
\* or the steal_ptr or drop that emptied it), with the refcount r before
\* that.
NoSlot == NULL
NoChain == [op |-> "none", p |-> NULL, r |-> 0]
Fillers == {"from_owned_ptr", "from_borrowed_ptr", "clone", "steal_then_adopt"}
Emptiers == {"steal_ptr", "drop"}
Log(op, h, h2, p, t, res) ==
  [op |-> op, h |-> h, h2 |-> h2, p |-> p, res |-> res,
   pre |-> ob_refcnt, live |-> NLive(slot), t |-> t,
   kind |-> IF p = NULL THEN "int" ELSE ob_type[p],
   src |-> IF h = NoSlot THEN Vacant ELSE slot[h],
   chain |-> IF h # NoSlot
                /\ \/ last.h2 = h /\ last.op \in Fillers
                   \/ last.h = h /\ last.op \in Emptiers
             THEN [op |-> last.op, p |-> last.p, r |-> last.pre[last.p]]
             ELSE NoChain]

\* The heap after a step; what a released object held is gone.
SetHeap(hp) ==
  /\ ob_refcnt' = hp.rc
  /\ mem' = hp.mem
  /\ acc' = hp.ev
  /\ ob_type' = [p \in Ptrs |-> IF hp.mem[p] = "live" THEN ob_type[p] ELSE "int"]

\* No view exists.  A view pins the pointer locations it covers: while it
\* exists the caller keeps the references those locations own.
NoView == [kind |-> "none", v |-> <<>>]
Pinned(p) == Cardinality({i \in DOMAIN view.v : view.v[i].ptr = p})
ViewPtrs == [i \in DOMAIN view.v |-> view.v[i].ptr]

\* The location a new value is placed in: the first vacant one.
FreeSlots == {h \in Slots : slot[h].st = "vacant"}
NewSlot == CHOOSE h \in FreeSlots : \A g \in FreeSlots : h <= g

\* ------------------------------------------------------------------ Init
Init ==
  /\ mem = [p \in Ptrs |-> "free"]
  /\ ob_refcnt = [p \in Ptrs |-> 0]
  /\ ob_type = [p \in Ptrs |-> "int"]
  /\ ext = [p \in Ptrs |-> 0]
  /\ slot = [h \in Slots |-> Vacant]
  /\ last = [op |-> "init", h |-> NoSlot, h2 |-> NoSlot, p |-> NULL, res |-> 0,
             pre |-> [p \in Ptrs |-> 0], live |-> [p \in Ptrs |-> 0], t |-> "PyObject",
             kind |-> "int", src |-> Vacant, chain |-> NoChain]
  /\ acc = <<>>
  /\ view = NoView

\* ------------------------------------------------- the caller's own steps
\* The foreign runtime creates a fresh object; the caller owns its single
\* reference.
PyAlloc(p) ==
  /\ mem[p] = "free"
  /\ mem' = [mem EXCEPT ![p] = "live"]
  /\ ob_refcnt' = [ob_refcnt EXCEPT ![p] = 1]
  /\ ob_type' = [ob_type EXCEPT ![p] = KindAt(p)]
  /\ ext' = [ext EXCEPT ![p] = 1]
  /\ last' = Log("alloc", NoSlot, NoSlot, p, "PyObject", 0)
  /\ acc' = <<>>
  /\ UNCHANGED <<slot, view>>

\* The caller releases a reference it owns.
CallerDecref(p) ==
  /\ ext[p] > Pinned(p)
  /\ SetHeap(Py_DECREF(Heap, p))
  /\ ext' = [ext EXCEPT ![p] = @ - 1]
  /\ last' = Log("caller_decref", NoSlot, NoSlot, p, "PyObject", 0)
  /\ UNCHANGED <<slot, view>>

\* What the caller must provide: for an owned pointer a reference it owns
\* to a live object, for a borrowed pointer a live object.
OwnedByCaller(p) == mem[p] = "live" /\ ext[p] > Pinned(p)
Borrowable(p) == mem[p] = "live" /\ ob_refcnt[p] < MaxRef

\* ------------------------------------------------------------ operations
\* from_owned_ptr(py, ptr): ptr valid, and the caller hands over a reference
\* it owns.
FromOwnedPtr(p) ==
  /\ FreeSlots # {}
  /\ mem[p] = "live" /\ ext[p] > Pinned(p)
  /\ \E py \in Sessions : LET r == from_owned_ptr(Heap, py, p) IN
       /\ SetHeap(r.hp)
       /\ slot' = [slot EXCEPT ![NewSlot] = [st |-> "live", ty |-> "PyObject", v |-> r.ret]]
  /\ ext' = [ext EXCEPT ![p] = @ - 1]
  /\ last' = Log("from_owned_ptr", NoSlot, NewSlot, p, "PyObject", 0)
  /\ UNCHANGED view

\* from_borrowed_ptr(py, ptr): ptr valid; the caller keeps what it has.
FromBorrowedPtr(p) ==
  /\ FreeSlots # {}
  /\ mem[p] = "live" /\ ob_refcnt[p] < MaxRef
  /\ \E py \in Sessions : LET r == from_borrowed_ptr(Heap, py, p) IN
       /\ SetHeap(r.hp)
       /\ slot' = [slot EXCEPT ![NewSlot] = [st |-> "live", ty |-> "PyObject", v |-> r.ret]]
  /\ last' = Log("from_borrowed_ptr", NoSlot, NewSlot, p, "PyObject", 0)
  /\ UNCHANGED <<ext, view>>

\* h.clone(): the clone has the static type of the original.
Clone(h) ==
  /\ FreeSlots # {}
  /\ slot[h].st = "live" /\ ob_refcnt[slot[h].v.ptr] < MaxRef
  /\ LET r == clone(Heap, slot[h].v) IN
       /\ SetHeap(r.hp)
       /\ slot' = [slot EXCEPT ![NewSlot] = [st |-> "live", ty |-> slot[h].ty, v |-> r.ret]]
  /\ last' = Log("clone", h, NewSlot, slot[h].v.ptr, "PyObject", 0)
  /\ UNCHANGED <<ext, view>>

\* The value in h goes out of scope: the destructor runs, and the location
\* is left zeroed.
Drop(h) ==
  /\ slot[h].st = "live"
  /\ SetHeap(drop(Heap, slot[h].v))
  /\ slot' = [slot EXCEPT ![h] = Vacant]
  /\ last' = Log("drop", h, NoSlot, slot[h].v.ptr, "PyObject", 0)
  /\ UNCHANGED <<ext, view>>

\* The storage of a location that holds no value (moved from, or already
\* dropped) ends: without a drop flag the destructor runs on its zero bytes.
DropZeroed(h) ==
  /\ slot[h].st = "vacant"
  /\ SetHeap(drop(Heap, slot[h].v))
  /\ slot' = [slot EXCEPT ![h] = Vacant]
  /\ last' = Log("drop_zeroed", h, NoSlot, NULL, "PyObject", 0)
  /\ UNCHANGED <<ext, view>>

\* h.steal_ptr(): the caller re-assumes ownership of the reference.
StealPtr(h) ==
  /\ slot[h].st = "live"
  /\ LET r == steal_ptr(Heap, slot[h].v) IN
       /\ SetHeap(r.hp)
       /\ ext' = [ext EXCEPT ![slot[h].v.ptr] = @ + 1]
       /\ last' = Log("steal_ptr", h, NoSlot, slot[h].v.ptr, "PyObject", r.ret)
  /\ slot' = [slot EXCEPT ![h] = Vacant]
  /\ UNCHANGED view

GetRefcnt(h) ==
  /\ slot[h].st = "live"
  /\ last' = Log("get_refcnt", h, NoSlot, slot[h].v.ptr, "PyObject", get_refcnt(Heap, slot[h].v))
  /\ acc' = get_refcnt_reads(Heap, slot[h].v).ev
  /\ UNCHANGED <<mem, ob_refcnt, ob_type, ext, slot, view>>

\* What a cast returned, as logged.
Outcome(r) == [ok |-> r.ok, ty |-> r.ty, ptr |-> r.v.ptr, py |-> r.v.py]

\* A by-value cast of the generic handle in h: the value moves into the
\* result (kept in h, with its new static type) or is gone with the error.
MoveCast(op, h, T, r) ==
  /\ SetHeap(r.hp)
  /\ slot' = [slot EXCEPT ![h] =
                IF r.ok THEN [st |-> "live", ty |-> r.ty, v |-> r.v]
                        ELSE Vacant]
  /\ last' = Log(op, h, NoSlot, slot[h].v.ptr, T, Outcome(r))
  /\ UNCHANGED <<ext, view>>

\* A by-reference cast: the result borrows h.
RefCast(op, h, T, r) ==
  /\ SetHeap(r.hp)
  /\ last' = Log(op, h, NoSlot, slot[h].v.ptr, T, Outcome(r))
  /\ UNCHANGED <<ext, slot, view>>

CastInto(h, T) ==
  /\ slot[h].st = "live" /\ slot[h].ty = "PyObject"
  /\ MoveCast("cast_into", h, T, cast_into(T, Heap, slot[h].v))

CastAs(h, T) ==
  /\ slot[h].st = "live" /\ slot[h].ty = "PyObject"
  /\ RefCast("cast_as", h, T, cast_as(T, Heap, slot[h].v))

\* The unchecked forms: the caller has established that the kind matches.
UncheckedCastInto(h, T) ==
  /\ slot[h].st = "live" /\ slot[h].ty = "PyObject"
  /\ Satisfies(get_type(slot[h].v), T)
  /\ MoveCast("unchecked_cast_into", h, T, unchecked_cast_into(T, Heap, slot[h].v))

UncheckedCastAs(h, T) ==
  /\ slot[h].st = "live" /\ slot[h].ty = "PyObject"
  /\ Satisfies(get_type(slot[h].v), T)
  /\ RefCast("unchecked_cast_as", h, T, unchecked_cast_as(T, Heap, slot[h].v))

\* Upcasts of the handle in h, generic or specific, to the generic handle.
IntoObject(h) ==
  /\ slot[h].st = "live"
  /\ LET r == IF slot[h].ty = "PyObject" THEN into_object(Heap, slot[h].v)
                                         ELSE variant_into_object(Heap, slot[h].v) IN
       /\ SetHeap(r.hp)
       /\ slot' = [slot EXCEPT ![h] = [st |-> "live", ty |-> "PyObject", v |-> r.ret]]
       /\ last' = Log("into_object", h, NoSlot, slot[h].v.ptr, "PyObject",
                      [ok |-> TRUE, ty |-> "PyObject", ptr |-> r.ret.ptr, py |-> r.ret.py])
  /\ UNCHANGED <<ext, view>>

AsObject(h) ==
  /\ slot[h].st = "live"
  /\ LET r == IF slot[h].ty = "PyObject" THEN as_object(slot[h].v)
                                         ELSE variant_as_object(slot[h].v) IN
       last' = Log("as_object", h, NoSlot, slot[h].v.ptr, "PyObject",
                   [ok |-> TRUE, ty |-> "PyObject", ptr |-> r.ptr, py |-> r.py])
  /\ acc' = <<>>
  /\ UNCHANGED <<mem, ob_refcnt, ob_type, ext, slot, view>>

\* a == b on two handles
Eq(a, b) ==
  /\ slot[a].st = "live" /\ slot[b].st = "live"
  /\ last' = Log("eq", a, b, slot[a].v.ptr, "PyObject", eq(slot[a].v, slot[b].v))
  /\ acc' = <<>>
  /\ UNCHANGED <<mem, ob_refcnt, ob_type, ext, slot, view>>

\* PyObject::from_owned_ptr(py, h.steal_ptr()): the pointer that steal_ptr
\* returns goes straight back into a new handle, which is placed in the
\* first location vacant once h is emptied.
FirstVacant(s) ==
  CHOOSE h \in Slots : s[h].st = "vacant" /\ \A g \in Slots : s[g].st = "vacant" => h <= g
StealThenAdopt(h) ==
  /\ slot[h].st = "live"
  /\ \E py \in Sessions :
       LET r1 == steal_ptr(Heap, slot[h].v)
           emptied == [slot EXCEPT ![h] = Vacant]
           r2 == from_owned_ptr(r1.hp, py, r1.ret)
           h2 == FirstVacant(emptied) IN
         /\ SetHeap(r2.hp)
         /\ slot' = [emptied EXCEPT ![h2] = [st |-> "live", ty |-> "PyObject", v |-> r2.ret]]
         /\ last' = Log("steal_then_adopt", h, h2, slot[h].v.ptr, "PyObject",
                        [stolen |-> r1.ret, eq |-> eq(r2.ret, slot[h].v), mid |-> r1.hp.rc])
  /\ UNCHANGED <<ext, view>>

\* from_owned_ptr_opt(py, ptr) and from_borrowed_ptr_opt(py, ptr), in a debug
\* or a release build: the handle of Some is placed in a vacant location.
OptResult(debug, seen, r) ==
  [debug |-> debug, seen |-> seen, some |-> r.some, panic |-> r.panic, ptr |-> r.ret.ptr]

FromOwnedPtrOpt(debug, p, seen) ==
  /\ p # NULL => FreeSlots # {}
  /\ \E py \in Sessions : LET r == from_owned_ptr_opt(debug, Heap, py, p, seen) IN
       /\ SetHeap(r.hp)
       /\ slot' = IF r.some
                  THEN [slot EXCEPT ![NewSlot] = [st |-> "live", ty |-> "PyObject", v |-> r.ret]]
                  ELSE slot
       /\ ext' = IF r.some /\ ext[p] > 0 THEN [ext EXCEPT ![p] = @ - 1] ELSE ext
       /\ last' = Log("from_owned_ptr_opt", NoSlot, IF r.some THEN NewSlot ELSE NoSlot,
                      p, "PyObject", OptResult(debug, seen, r))
  /\ UNCHANGED view

FromBorrowedPtrOpt(debug, p, seen) ==
  /\ p # NULL => FreeSlots # {}
  /\ \E py \in Sessions : LET r == from_borrowed_ptr_opt(debug, Heap, py, p, seen) IN
       /\ SetHeap(r.hp)
       /\ slot' = IF r.some
                  THEN [slot EXCEPT ![NewSlot] = [st |-> "live", ty |-> "PyObject", v |-> r.ret]]
                  ELSE slot
       /\ last' = Log("from_borrowed_ptr_opt", NoSlot, IF r.some THEN NewSlot ELSE NoSlot,
                      p, "PyObject", OptResult(debug, seen, r))
  /\ UNCHANGED <<ext, view>>

\* from_owned_ptr(py, ptr) and from_borrowed_ptr(py, ptr) in a debug or a
\* release build, with whatever pointer the caller passes: the assertion
\* may panic, and then nothing is returned.
FromOwnedPtrIn(debug, p, seen) ==
  /\ FreeSlots # {}
  /\ \E py \in Sessions : LET r == from_owned_ptr_in(debug, Heap, py, p, seen) IN
       /\ SetHeap(r.hp)
       /\ slot' = IF r.panic THEN slot
                  ELSE [slot EXCEPT ![NewSlot] = [st |-> "live", ty |-> "PyObject", v |-> r.ret]]
       /\ ext' = IF ~r.panic /\ ext[p] > 0 THEN [ext EXCEPT ![p] = @ - 1] ELSE ext
       /\ last' = Log("from_owned_ptr_in", NoSlot, IF r.panic THEN NoSlot ELSE NewSlot,
                      p, "PyObject", OptResult(debug, seen, Some(r)))
  /\ UNCHANGED view

FromBorrowedPtrIn(debug, p, seen) ==
  /\ FreeSlots # {}
  /\ \E py \in Sessions : LET r == from_borrowed_ptr_in(debug, Heap, py, p, seen) IN
       /\ SetHeap(r.hp)
       /\ slot' = IF r.panic THEN slot
                  ELSE [slot EXCEPT ![NewSlot] = [st |-> "live", ty |-> "PyObject", v |-> r.ret]]
       /\ last' = Log("from_borrowed_ptr_in", NoSlot, IF r.panic THEN NoSlot ELSE NewSlot,
                      p, "PyObject", OptResult(debug, seen, Some(r)))
  /\ UNCHANGED <<ext, view>>

\* borrow_from_owned_ptr(py, &ptr): a view of one pointer location.
BorrowFromOwnedPtr(debug, p, seen) ==
  /\ view = NoView
  /\ \E py \in Sessions : LET r == borrow_from_owned_ptr_in(debug, Heap, py, p, seen) IN
       /\ SetHeap(r.hp)
       /\ view' = IF r.panic THEN view ELSE [kind |-> "ref", v |-> <<r.ret>>]
       /\ last' = Log("borrow_from_owned_ptr", NoSlot, NoSlot, p, "PyObject",
                      [debug |-> debug, seen |-> seen, panic |-> r.panic, ptrs |-> <<p>>])
  /\ UNCHANGED <<ext, slot>>

\* borrow_from_owned_ptr_slice(py, &ptrs): a view of a slice of them.
BorrowFromOwnedPtrSlice(debug, ptrs) ==
  /\ view = NoView
  /\ \E py \in Sessions : LET r == borrow_from_owned_ptr_slice_in(debug, Heap, py, ptrs) IN
       /\ SetHeap(r.hp)
       /\ view' = IF r.panic THEN view ELSE [kind |-> "slice", v |-> r.ret]
       /\ last' = Log("borrow_from_owned_ptr_slice", NoSlot, NoSlot, NULL, "PyObject",
                      [debug |-> debug, panic |-> r.panic, ptrs |-> ptrs])
  /\ UNCHANGED <<ext, slot>>

\* The view ends: a reference has no destructor.
EndView ==
  /\ view # NoView
  /\ view' = NoView
  /\ last' = Log("end_view", NoSlot, NoSlot, NULL, "PyObject",
                 [kind |-> view.kind, ptrs |-> ViewPtrs])
  /\ acc' = <<>>
  /\ UNCHANGED <<mem, ob_refcnt, ob_type, ext, slot>>

\* view[i].clone(): a view is a &PyObject, and can be cloned into a handle.
ViewClone(i) ==
  /\ i \in DOMAIN view.v
  /\ FreeSlots # {}
  /\ Borrowable(view.v[i].ptr)
  /\ LET r == clone(Heap, view.v[i]) IN
       /\ SetHeap(r.hp)
       /\ slot' = [slot EXCEPT ![NewSlot] = [st |-> "live", ty |-> "PyObject", v |-> r.ret]]
  /\ last' = Log("view_clone", NoSlot, NewSlot, view.v[i].ptr, "PyObject", 0)
  /\ UNCHANGED <<ext, view>>

AsPtr(h) ==
  /\ slot[h].st = "live"
  /\ last' = Log("as_ptr", h, NoSlot, slot[h].v.ptr, "PyObject", as_ptr(slot[h].v))
  /\ acc' = <<>>
  /\ UNCHANGED <<mem, ob_refcnt, ob_type, ext, slot, view>>

GetType(h) ==
  /\ slot[h].st = "live"
  /\ last' = Log("get_type", h, NoSlot, slot[h].v.ptr, "PyObject", get_type(slot[h].v))
  /\ acc' = get_type_reads(Heap, slot[h].v).ev
  /\ UNCHANGED <<mem, ob_refcnt, ob_type, ext, slot, view>>

Python(h) ==
  /\ slot[h].st = "live"
  /\ last' = Log("python", h, NoSlot, slot[h].v.ptr, "PyObject", python(slot[h].v))
  /\ acc' = <<>>
  /\ UNCHANGED <<mem, ob_refcnt, ob_type, ext, slot, view>>

\* The slices a caller can pass: the caller keeps its pointers in an array,
\* the pointer to object i at index i, and passes any part of it, which may
\* be empty.
Slices == {[i \in 1..n |-> a + i - 1] : a \in Ptrs, n \in 0..NumObjs} \cap Seq(Ptrs)
\* The same, or such a part followed by a NULL.
RawSlices == Slices \cup {Append(ptrs, NULL) : ptrs \in Slices}
\* What the caller can pass as a pointer, and what a read of its refcount
\* then returns.
RawPtrs == Ptrs \cup {NULL}
Seen(p) == IF p = NULL THEN {0} ELSE RefcntSeen(p)
\* Each pointer of the slice is a reference the caller owns.
OwnedSlice(ptrs) == \A i \in DOMAIN ptrs : OwnedByCaller(ptrs[i])

\* format!("{}", h) and format!("{:?}", h): the formatter holds f0; the
\* protocol call, the extraction and the sink each succeed or fail.
Traits == {"String", "Show"}
Formatters == {<<>>, <<"[">>}
Fmt(h, trait, called, extracted, f0, sink_ok) ==
  /\ slot[h].st = "live"
  /\ LET r == IF trait = "String"
              THEN String_fmt(slot[h].v, called, extracted, f0, sink_ok)
              ELSE Show_fmt(slot[h].v, called, extracted, f0, sink_ok) IN
       last' = Log("fmt", h, NoSlot, slot[h].v.ptr, "PyObject",
                   [trait |-> trait, called |-> called, extracted |-> extracted,
                    f0 |-> f0, sink_ok |-> sink_ok, ret |-> r.ret, f |-> r.f, tmp |-> r.tmp])
  /\ acc' = <<>>
  /\ UNCHANGED <<mem, ob_refcnt, ob_type, ext, slot, view>>

\* What the protocol call of a trait can return for the object of h, and
\* what extracting a native string from that can return.
Protocol(h, trait) ==
  {Failed, Returned(IF trait = "String" THEN py_str(slot[h].v.ptr) ELSE py_repr(slot[h].v.ptr))}
Extraction(called) == IF called.ok THEN {Failed, called} ELSE {Failed}

\* The operations that change the heap or a handle.
Next ==
  \/ \E p \in Ptrs : PyAlloc(p)
  \/ \E p \in Ptrs : CallerDecref(p)
  \/ \E p \in Ptrs : FromOwnedPtr(p)
  \/ \E p \in Ptrs : FromBorrowedPtr(p)
  \/ \E h \in Slots : Clone(h)
  \/ \E h \in Slots : Drop(h)
  \/ \E h \in Slots : DropZeroed(h)
  \/ \E h \in Slots : StealPtr(h)
  \/ \E h \in Slots, T \in Variants : CastInto(h, T)
  \/ \E h \in Slots, T \in Variants : UncheckedCastInto(h, T)
  \/ \E h \in Slots : IntoObject(h)

Spec == Init /\ [][Next]_vars

\* The scenario of one adopted handle, its clones and their drops, with
\* get_refcnt read at any point.
NextScenario ==
  \/ \E p \in Ptrs : PyAlloc(p)
  \/ \E p \in Ptrs : FromOwnedPtr(p)
  \/ \E h \in Slots : Clone(h)
  \/ \E h \in Slots : Drop(h)
  \/ \E h \in Slots : GetRefcnt(h)

SpecScenario == Init /\ [][NextScenario]_vars

\* All operations, with the by-reference casts.
NextCast ==
  \/ Next
  \/ \E h \in Slots, T \in Variants : CastAs(h, T)
  \/ \E h \in Slots, T \in Variants : UncheckedCastAs(h, T)
  \/ \E h \in Slots : AsObject(h)

SpecCast == Init /\ [][NextCast]_vars

\* All operations, with the comparison of two handles.
NextEq ==
  \/ Next
  \/ \E a, b \in Slots : Eq(a, b)

SpecEq == Init /\ [][NextEq]_vars

\* The life of handles without the casts: construction, clone, drop and
\* steal_ptr.
NextLife ==
  \/ \E p \in Ptrs : PyAlloc(p)
  \/ \E p \in Ptrs : CallerDecref(p)
  \/ \E p \in Ptrs : FromOwnedPtr(p)
  \/ \E p \in Ptrs : FromBorrowedPtr(p)
  \/ \E h \in Slots : Clone(h)
  \/ \E h \in Slots : Drop(h)
  \/ \E h \in Slots : StealPtr(h)

\* The life of handles, with the constructors that accept NULL, called as
\* their contract requires: with NULL or a valid pointer.
NextOpt ==
  \/ NextLife
  \/ \E debug \in BOOLEAN : FromOwnedPtrOpt(debug, NULL, 0)
  \/ \E debug \in BOOLEAN : FromBorrowedPtrOpt(debug, NULL, 0)
  \/ \E debug \in BOOLEAN, p \in Ptrs :
       OwnedByCaller(p) /\ FromOwnedPtrOpt(debug, p, Py_REFCNT(Heap, p))
  \/ \E debug \in BOOLEAN, p \in Ptrs :
       Borrowable(p) /\ FromBorrowedPtrOpt(debug, p, Py_REFCNT(Heap, p))

SpecOpt == Init /\ [][NextOpt]_vars

\* Every operation of the handle: those that change the heap or a handle,
\* the reads, the comparison, the by-reference casts and the views.  An
\* operation of Probes leaves the heap and the handles as they are, so what
\* can follow it is what can follow the state it was made in: here each is
\* taken from the states the other operations reach, and a view ends before
\* anything else happens (SpecView follows views that last).
Probes == {"get_refcnt", "as_ptr", "get_type", "python", "eq", "cast_as",
           "unchecked_cast_as", "borrow_from_owned_ptr", "borrow_from_owned_ptr_slice"}
Settled == view = NoView /\ last.op \notin Probes
NextFrame ==
  \/ Settled /\ \E p \in Ptrs : PyAlloc(p)
  \/ Settled /\ \E p \in Ptrs : CallerDecref(p)
  \/ Settled /\ \E p \in Ptrs : FromOwnedPtr(p)
  \/ Settled /\ \E p \in Ptrs : FromBorrowedPtr(p)
  \/ Settled /\ \E h \in Slots : Clone(h)
  \/ Settled /\ \E h \in Slots : Drop(h)
  \/ Settled /\ \E h \in Slots : DropZeroed(h)
  \/ Settled /\ \E h \in Slots : StealPtr(h)
  \/ Settled /\ \E h \in Slots, T \in Variants : CastInto(h, T)
  \/ Settled /\ \E h \in Slots, T \in Variants : UncheckedCastInto(h, T)
  \/ Settled /\ \E h \in Slots : IntoObject(h)
  \/ Settled /\ \E h \in Slots : GetRefcnt(h)
  \/ Settled /\ \E h \in Slots : AsPtr(h)
  \/ Settled /\ \E h \in Slots : GetType(h)
  \/ Settled /\ \E h \in Slots : Python(h)
  \/ Settled /\ \E a, b \in Slots : Eq(a, b)
  \/ Settled /\ \E h \in Slots, T \in Variants : CastAs(h, T)
  \/ Settled /\ \E h \in Slots, T \in Variants : UncheckedCastAs(h, T)
  \/ Settled /\ \E p \in Ptrs :
       OwnedByCaller(p) /\ BorrowFromOwnedPtr(FALSE, p, Py_REFCNT(Heap, p))
  \/ Settled /\ \E ptrs \in Slices :
       OwnedSlice(ptrs) /\ BorrowFromOwnedPtrSlice(FALSE, ptrs)
  \/ EndView

SpecFrame == Init /\ [][NextFrame]_vars

\* The life of handles, with the formatting of a handle at any point.
NextFmt ==
  \/ NextLife
  \/ \E h \in Slots, trait \in Traits, f0 \in Formatters :
       /\ slot[h].st = "live"
       /\ \E called \in Protocol(h, trait) : \E extracted \in Extraction(called) :
            \E sink_ok \in (IF extracted.ok THEN BOOLEAN ELSE {TRUE}) :
              Fmt(h, trait, called, extracted, f0, sink_ok)

SpecFmt == Init /\ [][NextFmt]_vars

\* The operations that change the heap or a handle, with the reads of an
\* object's refcount and type.
NextAccess ==
  \/ Next
  \/ \E h \in Slots : GetRefcnt(h)
  \/ \E h \in Slots : GetType(h)

SpecAccess == Init /\ [][NextAccess]_vars

\* The life of handles, with views of the caller's pointers that are
\* created, used and ended at any point, in a debug or a release build.
NextView ==
  \/ NextLife
  \/ \E debug \in BOOLEAN, p \in Ptrs :
       OwnedByCaller(p) /\ BorrowFromOwnedPtr(debug, p, Py_REFCNT(Heap, p))
  \/ \E debug \in BOOLEAN, ptrs \in Slices :
       OwnedSlice(ptrs) /\ BorrowFromOwnedPtrSlice(debug, ptrs)
  \/ \E i \in 1..NumObjs : ViewClone(i)
  \/ EndView

SpecView == Init /\ [][NextView]_vars

\* No undefined behaviour has occurred: every live handle and every view
\* is on a live object.
Defined ==
  /\ \A p \in Ptrs : mem[p] # "corrupt"
  /\ \A h \in Slots : slot[h].st = "live" => (slot[h].v.ptr # NULL /\ mem[slot[h].v.ptr] = "live")
  /\ \A i \in DOMAIN view.v : ViewPtrs[i] # NULL /\ mem[ViewPtrs[i]] = "live"

\* A debug build whose caller passes any pointer to the constructors: NULL,
\* the address of a live object, or an address where no object lives.  A
\* constructor that returns for a pointer to no live object has undefined
\* behaviour: the state it leaves is followed no further.
NextDebug ==
  \/ Defined /\ \E p \in Ptrs : PyAlloc(p)
  \/ Defined /\ \E p \in Ptrs : CallerDecref(p)
  \/ Defined /\ \E h \in Slots : Clone(h)
  \/ Defined /\ \E h \in Slots : Drop(h)
  \/ Defined /\ \E p \in RawPtrs : \E seen \in Seen(p) : FromOwnedPtrIn(TRUE, p, seen)
  \/ Defined /\ \E p \in RawPtrs : \E seen \in Seen(p) :
       (p # NULL => ob_refcnt[p] < MaxRef) /\ FromBorrowedPtrIn(TRUE, p, seen)
  \/ Defined /\ \E p \in RawPtrs : \E seen \in Seen(p) : FromOwnedPtrOpt(TRUE, p, seen)
  \/ Defined /\ \E p \in RawPtrs : \E seen \in Seen(p) :
       (p # NULL => ob_refcnt[p] < MaxRef) /\ FromBorrowedPtrOpt(TRUE, p, seen)
  \/ Defined /\ \E p \in RawPtrs : \E seen \in Seen(p) : BorrowFromOwnedPtr(TRUE, p, seen)
  \/ Defined /\ \E ptrs \in RawSlices : BorrowFromOwnedPtrSlice(TRUE, ptrs)
  \/ Defined /\ EndView

SpecDebug == Init /\ [][NextDebug]_vars

\* The life of handles, with the round trip of a handle through steal_ptr
\* and from_owned_ptr.
NextTrip ==
  \/ NextLife
  \/ \E h \in Slots : StealThenAdopt(h)

SpecTrip == Init /\ [][NextTrip]_vars

\* ===================================================================
\* Properties
\* ===================================================================
Live(h) == slot[h].st = "live"
Others(p) == Ptrs \ {p}
\* The refcounts of all objects but p are what they were before the step.
OthersKept(p) == \A q \in Others(p) : ob_refcnt[q] = last.pre[q]
\* The heap before the last step, for a step that released nothing.
HeapBefore == [rc |-> last.pre, mem |-> mem, ev |-> <<>>]

\* C1: every live handle has a non-null pointer to a live object whose
\* refcount is at least 1, and the refcount of every live object is the
\* number of references held outside the layer plus the number of live
\* handles on it; no object is released twice.
C1_HandleInvariant ==
  /\ \A h \in Slots : Live(h) =>
       /\ slot[h].v.ptr # NULL
       /\ mem[slot[h].v.ptr] = "live"
       /\ ob_refcnt[slot[h].v.ptr] >= 1
  /\ \A p \in Ptrs :
       /\ mem[p] # "corrupt"
       /\ mem[p] = "live" => ob_refcnt[p] = ext[p] + NLive(slot)[p]
       /\ mem[p] = "free" => ext[p] = 0 /\ NLive(slot)[p] = 0

\* A handle was cloned and the clone's reference handed back to the caller:
\* one live handle and one outside reference share the object.
C1_Witness ==
  /\ last.op = "steal_ptr"
  /\ ext[last.p] = 1 /\ NLive(slot)[last.p] = 1 /\ ob_refcnt[last.p] = 2

\* C2: from_borrowed_ptr(p) on an object of refcount r leaves refcount r+1
\* (one increment, nothing else touched) and a live handle on p; dropping
\* that handle next returns the refcount to r.
C2_ShareThenDrop ==
  /\ last.op = "from_borrowed_ptr" =>
       /\ ob_refcnt[last.p] = last.pre[last.p] + 1
       /\ OthersKept(last.p)
       /\ Live(last.h2) /\ slot[last.h2].v.ptr = last.p
  /\ (last.op = "drop" /\ last.chain.op = "from_borrowed_ptr") =>
       /\ ob_refcnt[last.p] = last.chain.r
       /\ mem[last.p] = "live"

C2_Witness ==
  /\ last.op = "drop" /\ last.chain.op = "from_borrowed_ptr"
  /\ last.chain.r = 1 /\ last.pre[last.p] = 2

\* C3: from_owned_ptr(p) leaves every refcount as it was, and dropping the
\* handle it returned issues one decrement: the refcount is one less than
\* right after the adoption.
C3_AdoptThenDrop ==
  /\ last.op = "from_owned_ptr" =>
       /\ ob_refcnt = last.pre
       /\ Live(last.h2) /\ slot[last.h2].v.ptr = last.p
  /\ (last.op = "drop" /\ last.chain.op = "from_owned_ptr") =>
       /\ last.pre[last.p] = last.chain.r
       /\ ob_refcnt[last.p] = last.chain.r - 1
       /\ OthersKept(last.p)

C3_Witness ==
  /\ last.op = "drop" /\ last.chain.op = "from_owned_ptr"
  /\ last.chain.r = 2 /\ ob_refcnt[last.p] = 1

\* C4: clone returns a handle (never an error) with the pointer and the
\* session of the original, leaves the original as it was and increments
\* the refcount by exactly one; dropping the clone next returns the
\* refcount to its value before the clone.
C4_CloneThenDrop ==
  /\ last.op = "clone" =>
       /\ Live(last.h2) /\ last.h2 # last.h
       /\ slot[last.h2].v.ptr = last.src.v.ptr
       /\ slot[last.h2].v.py = last.src.v.py
       /\ slot[last.h] = last.src
       /\ ob_refcnt[last.p] = last.pre[last.p] + 1
       /\ OthersKept(last.p)
  /\ (last.op = "drop" /\ last.chain.op = "clone") =>
       /\ ob_refcnt[last.p] = last.chain.r
       /\ OthersKept(last.p)

C4_Witness ==
  /\ last.op = "drop" /\ last.chain.op = "clone"
  /\ ob_refcnt[last.p] = 1 /\ NLive(slot)[last.p] = 1

\* C5: in the scenario (a fresh object of refcount 1 adopted by
\* from_owned_ptr, then clones and drops), get_refcnt returns the number of
\* live handles on the object, and a drop releases the object exactly when
\* it drops the last live handle: an object with a live handle is live, and
\* no object is released twice.
C5_ScenarioRefcount ==
  /\ (last.op = "get_refcnt" /\ ext[last.p] = 0) =>
       last.res = NLive(slot)[last.p]
  /\ last.op = "drop" =>
       (mem[last.p] = "free" <=> (last.live[last.p] = 1 /\ ext[last.p] = 0))
  /\ \A p \in Ptrs :
       /\ mem[p] # "corrupt"
       /\ NLive(slot)[p] > 0 => mem[p] = "live"
       /\ (ext[p] = 0 /\ NLive(slot)[p] = 0) => mem[p] = "free"

\* get_refcnt on the clone B of the adopted handle A returns 2.
C5_Witness ==
  /\ last.op = "get_refcnt" /\ last.res = 2
  /\ last.h = 2 /\ Live(1) /\ slot[1].v.ptr = last.p
  /\ ext[last.p] = 0

\* C6: the drop of a handle issues exactly one decrement; steal_ptr returns
\* the handle's pointer and changes no refcount, and the destructor that
\* later runs on the location it emptied changes no refcount either.
C6_DropOrSteal ==
  /\ last.op = "drop" =>
       /\ ob_refcnt[last.p] = last.pre[last.p] - 1
       /\ OthersKept(last.p)
  /\ last.op = "steal_ptr" =>
       /\ last.res = last.src.v.ptr /\ last.res = last.p
       /\ ob_refcnt = last.pre
       /\ ~Live(last.h)
       /\ ext[last.p] + NLive(slot)[last.p] = ob_refcnt[last.p]
  /\ last.op = "drop_zeroed" =>
       /\ ob_refcnt = last.pre
       /\ last.chain.op = "steal_ptr" =>
            (ob_refcnt[last.chain.p] = last.chain.r /\ mem[last.chain.p] = "live")

C6_Witness ==
  /\ last.op = "drop_zeroed" /\ last.chain.op = "steal_ptr"
  /\ ob_refcnt[last.chain.p] = 1 /\ NLive(slot)[last.chain.p] = 0

\* A checked cast whose target the object's kind does not satisfy.
Mismatch == last.op \in {"cast_into", "cast_as"} /\ ~Satisfies(last.kind, last.t)
\* A checked cast whose target the object's kind satisfies.
Match == last.op \in {"cast_into", "cast_as"} /\ Satisfies(last.kind, last.t)
IsDowncastError(r) == ~r.ok /\ r.ty = "PythonObjectDowncastError"

C8_MatchAsUnchecked ==
  /\ Match =>
       /\ last.res.ok /\ last.res.ty = last.t
       /\ last.res.ptr = last.src.v.ptr
       /\ Live(last.h) /\ slot[last.h].v = last.src.v
  /\ (Match /\ last.op = "cast_into") =>
       LET u == unchecked_cast_into(last.t, HeapBefore, last.src.v) IN
         /\ last.res = Outcome(u)
         /\ ob_refcnt = u.hp.rc
         /\ slot[last.h] = [st |-> "live", ty |-> u.ty, v |-> u.v]
  /\ (Match /\ last.op = "cast_as") =>
       LET u == unchecked_cast_as(last.t, HeapBefore, last.src.v) IN
         /\ last.res = Outcome(u)
         /\ ob_refcnt = u.hp.rc
         /\ slot[last.h] = last.src

C8_Witness ==
  /\ Match /\ last.op = "cast_into" /\ last.t = "PyInt"
  /\ last.res.ok /\ slot[last.h].ty = "PyInt"

\* C9: into_object and as_object return the generic handle on the pointer
\* of the source and change no refcount and no count of live handles.
C9_Upcast ==
  last.op \in {"into_object", "as_object"} =>
    /\ last.res.ok /\ last.res.ty = "PyObject"
    /\ last.res.ptr = last.src.v.ptr
    /\ ob_refcnt = last.pre
    /\ NLive(slot) = last.live
    /\ Live(last.h) /\ slot[last.h].v = last.src.v
    /\ last.op = "as_object" => slot[last.h] = last.src
    /\ last.op = "into_object" => slot[last.h].ty = "PyObject"

C9_Witness ==
  /\ last.op = "into_object" /\ last.src.ty = "PyInt"
  /\ slot[last.h].ty = "PyObject" /\ ob_refcnt[last.p] = 2

\* C10: a == b is true exactly when a and b hold the same pointer, whatever
\* the objects' values, and the comparison changes no refcount.
C10_EqIsIdentity ==
  last.op = "eq" =>
    /\ last.res = TRUE <=> slot[last.h].v.ptr = slot[last.h2].v.ptr
    /\ (\E p \in Ptrs : last.h \in LiveOn(slot, p) /\ last.h2 \in LiveOn(slot, p))
         => last.res = TRUE
    /\ ob_refcnt = last.pre
    /\ NLive(slot) = last.live

\* Two handles on different objects that hold equal values compare unequal.
C10_Witness ==
  /\ last.op = "eq" /\ last.res = FALSE
  /\ slot[last.h].v.ptr # slot[last.h2].v.ptr
  /\ ob_val(slot[last.h].v.ptr) = ob_val(slot[last.h2].v.ptr)

\* How often the last operation called a primitive.
Calls(what) == Cardinality({i \in DOMAIN acc : acc[i].what = what})
OptOps == {"from_owned_ptr_opt", "from_borrowed_ptr_opt"}

\* C11: from_owned_ptr_opt and from_borrowed_ptr_opt return None for NULL,
\* with no increment, no decrement and no refcount read; for a valid
\* pointer they return Some of exactly what from_owned_ptr (no increment)
\* and from_borrowed_ptr (exactly one increment) build.
C11_OptConstructors ==
  /\ (last.op \in OptOps /\ last.p = NULL) =>
       /\ ~last.res.some /\ ~last.res.panic
       /\ acc = <<>>
       /\ ob_refcnt = last.pre /\ NLive(slot) = last.live
  /\ (last.op = "from_owned_ptr_opt" /\ last.p # NULL) =>
       LET r == from_owned_ptr_in(last.res.debug, HeapBefore, "py", last.p, last.pre[last.p]) IN
         /\ last.res.some /\ ~last.res.panic
         /\ slot[last.h2] = [st |-> "live", ty |-> "PyObject", v |-> r.ret]
         /\ ob_refcnt = r.hp.rc /\ acc = r.hp.ev
         /\ ob_refcnt = last.pre
         /\ Calls("Py_INCREF") = 0 /\ Calls("Py_DECREF") = 0
  /\ (last.op = "from_borrowed_ptr_opt" /\ last.p # NULL) =>
       LET r == from_borrowed_ptr_in(last.res.debug, HeapBefore, "py", last.p, last.pre[last.p]) IN
         /\ last.res.some /\ ~last.res.panic
         /\ slot[last.h2] = [st |-> "live", ty |-> "PyObject", v |-> r.ret]
         /\ ob_refcnt = r.hp.rc /\ acc = r.hp.ev
         /\ ob_refcnt[last.p] = last.pre[last.p] + 1 /\ OthersKept(last.p)
         /\ Calls("Py_INCREF") = 1 /\ Calls("Py_DECREF") = 0

\* from_owned_ptr_opt returned None for NULL while an object with a live
\* handle exists.
C11_Witness ==
  /\ last.op = "from_owned_ptr_opt" /\ last.p = NULL /\ ~last.res.some
  /\ \E h \in Slots : Live(h)

\* The operations said to leave every refcount as it is.
ViewOps == {"borrow_from_owned_ptr", "borrow_from_owned_ptr_slice", "end_view"}
CastOps == {"cast_into", "cast_as", "unchecked_cast_into", "unchecked_cast_as"}
ReadOps == {"as_ptr", "get_refcnt", "get_type", "python", "eq"}
Unchanging == {"from_owned_ptr", "steal_ptr"} \cup ReadOps \cup ViewOps \cup CastOps
Touched(p) == /\ OthersKept(p)
              /\ \A i \in DOMAIN acc : acc[i].p = p
PlusOne == /\ ob_refcnt[last.p] = last.pre[last.p] + 1
           /\ Calls("Py_INCREF") = 1 /\ Calls("Py_DECREF") = 0
           /\ Touched(last.p)
MinusOne == /\ ob_refcnt[last.p] = last.pre[last.p] - 1
            /\ Calls("Py_INCREF") = 0 /\ Calls("Py_DECREF") = 1
            /\ Touched(last.p)
Kept == /\ ob_refcnt = last.pre
        /\ Calls("Py_INCREF") = 0 /\ Calls("Py_DECREF") = 0

C13_FmtErrors ==
  last.op = "fmt" =>
    LET r == last.res
        text == IF r.trait = "String" THEN py_str(last.p) ELSE py_repr(last.p) IN
      /\ r.ret \in {"Ok", "Err"}
      /\ (~r.called.ok \/ ~r.extracted.ok) => (r.ret = "Err" /\ r.f = r.f0)
      /\ r.f # r.f0 => (r.called.ok /\ r.extracted.ok /\ r.f = Append(r.f0, text))
      /\ (r.called.ok /\ r.extracted.ok /\ r.sink_ok) =>
           (r.ret = "Ok" /\ r.f = Append(r.f0, text))
      /\ r.tmp = IF r.called.ok THEN "released" ELSE "none"
      /\ ob_refcnt = last.pre /\ slot[last.h] = last.src

\* The extraction failed after repr() succeeded on a formatter that already
\* held text: the error is returned and the text is as it was.
C13_Witness ==
  /\ last.op = "fmt" /\ last.res.trait = "Show"
  /\ last.res.called.ok /\ ~last.res.extracted.ok
  /\ last.res.ret = "Err" /\ last.res.f = <<"[">>

\* C15: a drop decrements the refcount of its object exactly once and
\* leaves the location emptied (zeroed, with a null pointer); a destructor
\* that runs on an emptied location calls nothing and changes nothing, also
\* directly after the drop that emptied it; and no operation other than
\* that destructor ever acts on an emptied location.
C15_DropEmpties ==
  /\ last.op = "drop" =>
       /\ last.src.st = "live" /\ last.src.v.ptr = last.p
       /\ Len(acc) = 1 /\ MinusOne
       /\ slot[last.h] = Vacant /\ slot[last.h].v.ptr = NULL
  /\ last.op = "drop_zeroed" =>
       /\ last.src = Vacant
       /\ acc = <<>> /\ ob_refcnt = last.pre
       /\ last.chain.op = "drop" => ob_refcnt[last.chain.p] = last.chain.r - 1
  /\ (last.h # NoSlot /\ last.op # "drop_zeroed") =>
       (last.src.st = "live" /\ last.src.v.ptr # NULL)

\* The destructor ran again on a location just emptied by a drop that left
\* the object alive with one reference: the refcount is still 1.
C15_Witness ==
  /\ last.op = "drop_zeroed" /\ last.chain.op = "drop"
  /\ last.chain.r = 2 /\ ob_refcnt[last.chain.p] = 1 /\ mem[last.chain.p] = "live"

\* C16: the decrement of a drop is the last access of that step, and an
\* object whose refcount a decrement has brought to zero is not accessed
\* again: every read of a refcount or a type, every increment and every
\* decrement of every step is made on an object that is live at that
\* moment, no live handle is left on a released object, and nothing is
\* released twice.
C16_NoAccessAfterRelease ==
  /\ \A i \in DOMAIN acc : acc[i].mem = "live"
  /\ \A p \in Ptrs : mem[p] # "corrupt"
  /\ \A h \in Slots : Live(h) => mem[slot[h].v.ptr] = "live"
  /\ last.op = "drop" =>
       acc = <<[what |-> "Py_DECREF", p |-> last.p, mem |-> "live"]>>

\* A drop released an object (its refcount went from 1 to zero) while a
\* handle on another object is live.
C16_Witness ==
  /\ last.op = "drop" /\ last.pre[last.p] = 1 /\ mem[last.p] = "free"
  /\ \E h \in Slots : Live(h)

\* C17: borrow_from_owned_ptr and borrow_from_owned_ptr_slice give views of
\* the caller's pointers that own nothing: creating one makes no increment
\* and ending one no decrement, no refcount and no handle changes at either
\* point, and while a view exists the refcount of each object is what the
\* caller and the live handles hold (the view adds nothing) and the caller
\* still owns the reference of each pointer the view covers.
C17_ViewsOwnNothing ==
  /\ last.op \in {"borrow_from_owned_ptr", "borrow_from_owned_ptr_slice"} =>
       /\ ~last.res.panic /\ ViewPtrs = last.res.ptrs
       /\ Kept /\ NLive(slot) = last.live
  /\ last.op = "end_view" =>
       /\ view = NoView /\ acc = <<>>
       /\ Kept /\ NLive(slot) = last.live
       /\ \A i \in DOMAIN last.res.ptrs :
            mem[last.res.ptrs[i]] = "live" /\ ext[last.res.ptrs[i]] >= 1
  /\ \A p \in Ptrs : mem[p] = "live" => ob_refcnt[p] = ext[p] + NLive(slot)[p]
  /\ \A i \in DOMAIN view.v :
       /\ mem[ViewPtrs[i]] = "live"
       /\ ext[ViewPtrs[i]] >= Pinned(ViewPtrs[i])

\* A view of a slice of two pointers ended; each object has the one
\* reference its pointer owned before the view.
C17_Witness ==
  /\ last.op = "end_view" /\ last.res.kind = "slice" /\ Len(last.res.ptrs) = 2
  /\ \A i \in DOMAIN last.res.ptrs :
       ob_refcnt[last.res.ptrs[i]] = 1 /\ ext[last.res.ptrs[i]] = 1

\* The constructors of a debug build that were given a pointer to check.
PtrOps == {"from_owned_ptr_in", "from_borrowed_ptr_in", "from_owned_ptr_opt",
           "from_borrowed_ptr_opt", "borrow_from_owned_ptr"}
Asserting == /\ last.op \in PtrOps /\ last.res.debug
             /\ ~(last.op \in OptOps /\ last.p = NULL)
BadPtr == last.p = NULL \/ last.res.seen <= 0
\* The step panicked and did nothing else: no refcount changed, no
\* increment or decrement was made, and no handle or view came of it.
Refused == /\ last.res.panic
           /\ Kept /\ NLive(slot) = last.live
           /\ last.op \in ViewOps => view = NoView
           /\ last.op \notin ViewOps => last.h2 = NoSlot
AssertFirst ==
  /\ Asserting => (BadPtr <=> last.res.panic)
  /\ (Asserting /\ BadPtr) => Refused
  /\ (Asserting /\ last.p # NULL) =>
       acc[1] = [what |-> "Py_REFCNT", p |-> last.p, mem |-> acc[1].mem]
BadSlice == \E i \in DOMAIN last.res.ptrs :
              last.res.ptrs[i] = NULL \/ last.pre[last.res.ptrs[i]] <= 0

\* C18 as stated: in a debug build every constructor that takes a raw
\* pointer, borrow_from_owned_ptr_slice included, asserts that the pointer
\* is non-null with a positive refcount, and panics before it changes a
\* refcount or returns a handle or a view.
C18_AllAssert ==
  /\ AssertFirst
  /\ (last.op = "borrow_from_owned_ptr_slice" /\ last.res.debug /\ BadSlice) => Refused

\* C18, amended: that holds of from_owned_ptr, from_borrowed_ptr, their
\* _opt forms on a non-null pointer and borrow_from_owned_ptr.
\* borrow_from_owned_ptr_slice asserts nothing: in a debug build too it
\* reads no refcount, never panics, and returns the view of whatever
\* pointers it was given.
C18_AssertButSlice ==
  /\ AssertFirst
  /\ (last.op = "borrow_from_owned_ptr_slice" /\ last.res.debug) =>
       /\ ~last.res.panic /\ acc = <<>> /\ Kept
       /\ view.kind = "slice" /\ ViewPtrs = last.res.ptrs

\* from_borrowed_ptr was given the address of an object that had been
\* released while another object has a live handle; the refcount field
\* read 0: it panicked, and incremented nothing.
C18_Witness ==
  /\ last.op = "from_borrowed_ptr_in" /\ last.res.debug
  /\ last.p # NULL /\ mem[last.p] = "free" /\ last.res.seen = 0
  /\ last.res.panic /\ ob_refcnt = last.pre
  /\ \E h \in Slots : Live(h)

\* C19: steal_ptr followed by from_owned_ptr of the returned pointer gives
\* a handle that compares equal to the consumed one, with every refcount
\* as it was before steal_ptr and no increment or decrement made; the drop
\* of the new handle then makes the single decrement of the whole
\* sequence, leaving the refcount one below what it was before steal_ptr.
C19_RoundTrip ==
  /\ last.op = "steal_then_adopt" =>
       /\ last.res.stolen = last.src.v.ptr
       /\ Live(last.h2) /\ last.res.eq /\ eq(slot[last.h2].v, last.src.v)
       /\ last.res.mid = last.pre /\ ob_refcnt = last.pre
       /\ acc = <<>> /\ NLive(slot) = last.live
  /\ (last.op = "drop" /\ last.chain.op = "steal_then_adopt") =>
       /\ last.pre[last.p] = last.chain.r
       /\ ob_refcnt[last.p] = last.chain.r - 1 /\ OthersKept(last.p)
       /\ Len(acc) = 1 /\ Calls("Py_DECREF") = 1

\* The handle that came back from the round trip was dropped, on an
\* object that had two references before the round trip: one is left.
C19_Witness ==
  /\ last.op = "drop" /\ last.chain.op = "steal_then_adopt"
  /\ last.chain.r = 2 /\ ob_refcnt[last.p] = 1 /\ mem[last.p] = "live"

====
